---- MODULE Spec2Model ----
(***************************************************************************)
(* Model of the image upload / generate / poll pipeline of the repository  *)
(* and of the store adapters it uses.                                      *)
(*                                                                         *)
(* Texts (JavaScript strings, SQL TEXT values) are sequences of tokens; a  *)
(* token is an indivisible piece of text (a word, a quote character, a     *)
(* base64 group).  JavaScript / SQL values are tagged records so that      *)
(* null, undefined and the empty string stay distinct.                     *)
(***************************************************************************)
EXTENDS Integers, Sequences, FiniteSets, TLC

(***************************************************************************)
(* Bounds of the model.                                                    *)
(***************************************************************************)
\* number of identifiers uuidv4 can hand out, i.e. of accepted submissions
MaxSubmissions == 2
\* longest `response.output` list the generation API answers with
MaxOutput == 2

Ids == 1..MaxSubmissions

(***************************************************************************)
(* JavaScript / SQL values.                                                *)
(***************************************************************************)
Null == [t |-> "null"]
Undefined == [t |-> "undefined"]
Str(s) == [t |-> "string", s |-> s]

Bool(b) == [t |-> "boolean", b |-> b]

IsStr(v) == v.t = "string"
\* JavaScript truthiness of the values the model uses
Truthy(v) == (IsStr(v) /\ v.s # << >>) \/ v = Bool(TRUE)

\* better-sqlite3 binds undefined as NULL
Bind(v) == IF v = Undefined THEN Null ELSE v
\* SQL COALESCE(new, old)
Coalesce(new, old) == IF new # Null THEN new ELSE old

(***************************************************************************)
(* JSON.stringify / JSON.parse on texts.                                   *)
(***************************************************************************)
Quote == "\""
Backslash == "\\"

RECURSIVE Escape(_)
Escape(s) ==
    IF s = << >> THEN << >>
    ELSE (IF Head(s) \in {Quote, Backslash} THEN <<Backslash, Head(s)>> ELSE <<Head(s)>>)
         \o Escape(Tail(s))

\* the body of a JSON string literal: [ok, s]; a bare quote or a dangling
\* backslash makes it ill-formed
RECURSIVE Unescape(_)
Unescape(s) ==
    IF s = << >> THEN [ok |-> TRUE, s |-> << >>]
    ELSE IF Head(s) = Quote THEN [ok |-> FALSE, s |-> << >>]
    ELSE IF Head(s) = Backslash
         THEN IF Len(s) >= 2 /\ s[2] \in {Quote, Backslash}
              THEN LET r == Unescape(Tail(Tail(s)))
                   IN  [ok |-> r.ok, s |-> <<s[2]>> \o r.s]
              ELSE [ok |-> FALSE, s |-> << >>]
    ELSE LET r == Unescape(Tail(s))
         IN  [ok |-> r.ok, s |-> <<Head(s)>> \o r.s]

JSONstringify(v) ==
    IF IsStr(v) THEN <<Quote>> \o Escape(v.s) \o <<Quote>>
    ELSE IF v = Bool(TRUE) THEN <<"true">>
    ELSE IF v = Bool(FALSE) THEN <<"false">>
    ELSE <<"null">>

\* JSON.parse: [ok |-> TRUE, v |-> value], or [ok |-> FALSE] when it throws
JSONparse(text) ==
    IF text = <<"null">> THEN [ok |-> TRUE, v |-> Null]
    ELSE IF text = <<"true">> THEN [ok |-> TRUE, v |-> Bool(TRUE)]
    ELSE IF text = <<"false">> THEN [ok |-> TRUE, v |-> Bool(FALSE)]
    ELSE IF Len(text) >= 2 /\ text[1] = Quote /\ text[Len(text)] = Quote
         THEN LET r == Unescape(SubSeq(text, 2, Len(text) - 1))
              IN  IF r.ok THEN [ok |-> TRUE, v |-> Str(r.s)] ELSE [ok |-> FALSE]
    ELSE [ok |-> FALSE]

\* try { return JSON.parse(value) } catch { return value }
ParseOrRaw(text) ==
    LET r == JSONparse(text) IN IF r.ok THEN r.v ELSE Str(text)

(***************************************************************************)
(* Base64.  File contents are sequences of three-byte groups; each group   *)
(* is encoded as one four-character base64 token.                          *)
(***************************************************************************)
ByteGroups == {"AAA", "BBB", "CCC"}
B64Table == ("AAA" :> "QUFB") @@ ("BBB" :> "QkJC") @@ ("CCC" :> "Q0ND")

Base64Encode(bytes) == [i \in DOMAIN bytes |-> B64Table[bytes[i]]]

\* Buffer.from(text, "base64"): tokens that are not base64 are skipped
RECURSIVE Base64Decode(_)
Base64Decode(text) ==
    IF text = << >> THEN << >>
    ELSE LET g == {b \in ByteGroups : B64Table[b] = Head(text)}
         IN  (IF g = {} THEN << >> ELSE <<CHOOSE b \in g : TRUE>>)
             \o Base64Decode(Tail(text))

(***************************************************************************)
(* State.                                                                  *)
(***************************************************************************)
VARIABLES
    images,      \* SQLite table images: id -> row, or NoRow
    metadata,    \* SQLite table metadata: id -> (key -> JSON text)
    redis,       \* Redis: id -> hash `image:<id>` (field -> text); empty = no key
    apiKey,      \* whether process.env.OPENAI_API_KEY is set
    cont,        \* id -> the processAndStoreImage continuation started for it
    giftBasket,  \* contents of the file gift-basket.png written by the generation client
    actionResp,  \* the last response of the upload action
    statusResp,  \* the last response of GET /api/image/:imageId/status
    imageResp,   \* the last response of GET /api/image/:imageId
    lastCall     \* the last writing call made to both store adapters, with its results

\* the upload page in the browser (ImageUpload)
VARIABLES
    pageMounted,       \* the ImageUpload component is mounted
    actionData,        \* useActionData(): None, or the body of the action's last response
    processingStatus,  \* state processingStatus
    apiError,          \* state apiError
    imageReady,        \* state imageReady
    timers,            \* ids whose polling effect has an interval timer running
    inFlight,          \* id -> number of status requests started and not yet answered
    reported,          \* ghost: a response reported a terminal status for the current imageId
    observed,          \* ghost: the status the polls of the current imageId put on the page
    polled             \* ghost: the last status response that arrived: stale? terminal?

browserVars == <<pageMounted, actionData, processingStatus, apiError, imageReady, timers,
                 inFlight, reported, observed, polled>>

\* the comparison widget (ImageFlipper)
VARIABLES
    flipperMounted,    \* the ImageFlipper component is mounted
    dividerPosition,   \* state dividerPosition, a percentage [n, d] = n/d
    isDragging,        \* state isDragging
    containerWidth,    \* state containerWidth
    listeners          \* events of `document` that handleMouseUp is attached to

flipperVars == <<flipperMounted, dividerPosition, isDragging, containerWidth, listeners>>

\* the file input of the upload page and the image normalizer (convertToPng)
VARIABLES
    selectedFile,      \* state selectedFile
    previewImage,      \* state previewImage: the file the preview URL was made of
    conversions,       \* the handleFileChange calls so far, each with its position
    canvas             \* ghost: the arguments of the last drawImage call

normalizerVars == <<selectedFile, previewImage, conversions, canvas>>

\* the store connections of the server process
VARIABLES
    sqliteDb,          \* module variable db of sqlite.server: None or a connection
    redisClient,       \* module variable redisClient of redis.server: None or a client
    connections,       \* every SQLite connection / Redis client created so far
    callers            \* caller -> its position in getDatabase / getRedisClient

connectionVars == <<sqliteDb, redisClient, connections, callers>>

clientVars == <<browserVars, flipperVars, normalizerVars, connectionVars>>

vars == <<images, metadata, redis, apiKey, cont, giftBasket, actionResp, statusResp, imageResp,
          lastCall, clientVars>>

NoRow == [absent |-> TRUE]
None == [t |-> "none"]

\* a JavaScript object is a function from its keys; a missing key reads undefined
Prop(o, k) == IF k \in DOMAIN o THEN o[k] ELSE Undefined
EmptyObject == [k \in {} |-> Null]

(***************************************************************************)
(* SQLite store adapter (sqlite.server).  db = [images, metadata].         *)
(***************************************************************************)
DirectFields == {"status", "fileName", "timestamp"}
ColumnFields == {"data", "status", "fileName", "timestamp"}

\* the rows storeImage leaves in the images table
sqlite_storeImage_row(db, imageId, imageStr, md) ==
    LET old == db.images[imageId]
        status == Bind(Prop(md, "status"))
        fileName == Bind(Prop(md, "fileName"))
        timestamp == Bind(Prop(md, "timestamp"))
    IN  IF old # NoRow
        THEN [data      |-> Coalesce(Bind(imageStr), old.data),
              status    |-> Coalesce(status, old.status),
              fileName  |-> Coalesce(fileName, old.fileName),
              timestamp |-> Coalesce(timestamp, old.timestamp)]
        ELSE [data |-> Bind(imageStr), status |-> status,
              fileName |-> fileName, timestamp |-> timestamp]

\* the rows storeImage leaves in the metadata table for imageId
sqlite_storeImage_meta(db, imageId, md) ==
    LET other == DOMAIN md \ DirectFields
        new == [k \in other |-> JSONstringify(md[k])]
    IN  IF db.images[imageId] # NoRow THEN new ELSE new @@ db.metadata[imageId]

sqlite_storeImage(db, imageId, imageStr, md) ==
    [images   |-> [db.images EXCEPT ![imageId] = sqlite_storeImage_row(db, imageId, imageStr, md)],
     metadata |-> [db.metadata EXCEPT ![imageId] = sqlite_storeImage_meta(db, imageId, md)]]

\* mutant: metadata values are returned as stored, without JSON.parse
sqlite_getImageField_raw(db, imageId, field) ==
    IF field \in ColumnFields
    THEN IF db.images[imageId] # NoRow THEN db.images[imageId][field] ELSE Null
    ELSE IF field \in DOMAIN db.metadata[imageId]
         THEN Str(db.metadata[imageId][field])
         ELSE Null

sqlite_getImageField(db, imageId, field) ==
    IF field \in ColumnFields
    THEN IF db.images[imageId] # NoRow THEN db.images[imageId][field] ELSE Null
    ELSE IF field \in DOMAIN db.metadata[imageId]
         THEN ParseOrRaw(db.metadata[imageId][field])
         ELSE Null

(***************************************************************************)
(* Redis store adapter (redis.server).  r = id -> hash.                    *)
(***************************************************************************)
\* [found |-> FALSE] is the null return
redis_getImage(r, imageId) ==
    LET imageData == r[imageId]
    IN  IF DOMAIN imageData = {} THEN [found |-> FALSE]
        ELSE [found |-> TRUE,
              obj |-> [k \in DOMAIN imageData |->
                          IF k # "data" THEN ParseOrRaw(imageData[k])
                          ELSE Str(imageData[k])]]

(***************************************************************************)
(* Inputs of the upload route.                                             *)
(***************************************************************************)
PNG == "image/png"
JPEG == "image/jpeg"

\* a File of the submitted form; readable = it offers stream() or buffer
Files == [type : {PNG, JPEG}, name : {<<"room.png">>}, bytes : {<<"CCC">>},
          readable : BOOLEAN]
MaskFiles == [type : {PNG, JPEG}, name : {<<"mask.png">>}, bytes : {<<"BBB">>},
              readable : {TRUE}]
Colors == {<<"#F8F8F8">>}
Timestamps == {<<"2025-06-01T12:00:00.000Z">>}

wallPrompt == <<"Edit the provided image ... specific color: ", "{{color}}", ". Keep the rest ...">>

\* String.prototype.replace(pattern, by): the first occurrence only
RECURSIVE Replace(_, _, _)
Replace(text, pattern, by) ==
    IF text = << >> THEN << >>
    ELSE IF Head(text) = pattern THEN by \o Tail(text)
    ELSE <<Head(text)>> \o Replace(Tail(text), pattern, by)

\* text.split(sep).pop(): what follows the last occurrence of sep
RECURSIVE SplitPop(_, _)
SplitPop(text, sep) ==
    IF \E i \in DOMAIN text : text[i] = sep
    THEN SplitPop(Tail(text), sep)
    ELSE text

\* convertFileToBase64: [threw |-> TRUE], or the base64 text of the file
convertFileToBase64(file) ==
    IF file.readable
    THEN [threw |-> FALSE, value |-> Base64Encode(file.bytes)]
    ELSE [threw |-> TRUE]

(***************************************************************************)
(* Generation client (api/chatgpt).  An outcome is what the external API   *)
(* does with one request: it throws, or answers with an output list.       *)
(***************************************************************************)
Messages == {<<"quota exceeded">>, <<"invalid ", Quote, "image", Quote>>}
GeneratedImages == {<<"QUFB">>}

OutputItems ==
    {[type |-> "message", result |-> Undefined],
     [type |-> "image_generation_call", result |-> Null]}
    \cup {[type |-> "image_generation_call", result |-> Str(g)] : g \in GeneratedImages}

Outputs == UNION {[1..n -> OutputItems] : n \in 0..MaxOutput}

ApiOutcomes ==
    {[kind |-> "throws", message |-> m] : m \in Messages}
    \cup {[kind |-> "answers", output |-> o] : o \in Outputs}

\* response.output.filter(type === "image_generation_call").map(result)
RECURSIVE imageDataOf(_)
imageDataOf(output) ==
    IF output = << >> THEN << >>
    ELSE (IF Head(output).type = "image_generation_call"
          THEN <<Head(output).result>> ELSE << >>)
         \o imageDataOf(Tail(output))

\* [threw |-> TRUE], or [threw |-> FALSE, value |-> returned text,
\*  written |-> whether gift-basket.png was written]
generateImageWithGptResponse(file, outcome) ==
    IF convertFileToBase64(file).threw \/ outcome.kind = "throws"
    THEN [threw |-> TRUE]
    ELSE LET imageData == imageDataOf(outcome.output)
         IN  IF Len(imageData) > 0 /\ Truthy(imageData[1])
             THEN [threw |-> FALSE, value |-> imageData[1].s, written |-> TRUE]
             ELSE [threw |-> FALSE, value |-> << >>, written |-> FALSE]

\* Null, or the object {image: data URL}
processImageAndPrompt(key, prompt, file, outcome) ==
    IF ~key THEN Null
    ELSE LET g == generateImageWithGptResponse(file, outcome)
         IN  IF g.threw THEN Null
             ELSE [image |-> Str(<<"data:image/png", ";base64,">> \o g.value)]

(***************************************************************************)
(* Upload route (routes/image-upload): action and processAndStoreImage.    *)
(***************************************************************************)
DB == [images |-> images, metadata |-> metadata]

NotStarted == [pc |-> "none"]

\* mutant: an identifier generator that can repeat an identifier
uuidv4_repeating == Ids

\* uuidv4(): an identifier no submission has been given yet
uuidv4 == {i \in Ids : cont[i].pc = "none"}

\* mutant: the action returns without having persisted the record
action_store_skipped(db, imageId, imageBase64) == db

\* the store write of the action: the record of a fresh submission
action_store(db, imageId, imageBase64) ==
    sqlite_storeImage(db, imageId, Str(imageBase64), [status |-> Str(<<"pending">>)])

\* mutant: the 'completed' write carries an (empty) errorMessage as well
processAndStoreImage_store_msg(db, imageId, response, file, ts) ==
    IF response = Null THEN db
    ELSE IF Truthy(Prop(response, "error"))
    THEN sqlite_storeImage(db, imageId, Str(<< >>),
             [fileName |-> Str(file.name), timestamp |-> Str(ts),
              status |-> Str(<<"error">>), errorMessage |-> response.error])
    ELSE IF ~IsStr(Prop(response, "image")) THEN db
    ELSE sqlite_storeImage(db, imageId, Str(SplitPop(response.image.s, ";base64,")),
             [fileName |-> Str(file.name), timestamp |-> Str(ts),
              status |-> Str(<<"completed">>), errorMessage |-> Str(<< >>)])

\* the store write of processAndStoreImage once processImageAndPrompt has
\* answered with `response`; db itself when it writes nothing
processAndStoreImage_store(db, imageId, response, file, ts) ==
    IF response = Null THEN db
    ELSE IF Truthy(Prop(response, "error"))
    THEN sqlite_storeImage(db, imageId, Str(<< >>),
             [fileName |-> Str(file.name), timestamp |-> Str(ts),
              status |-> Str(<<"error">>), errorMessage |-> response.error])
    ELSE IF ~IsStr(Prop(response, "image")) THEN db    \* .split of undefined throws
    ELSE sqlite_storeImage(db, imageId, Str(SplitPop(response.image.s, ";base64,")),
             [fileName |-> Str(file.name), timestamp |-> Str(ts),
              status |-> Str(<<"completed">>)])

\* POST /: the whole handler, up to the response it returns
Action(file, maskFile, colorHex) ==
    /\ UNCHANGED <<redis, apiKey, giftBasket, statusResp, imageResp, lastCall, clientVars>>
    /\ IF file = Null
       THEN \* file.type of null: the handler throws before any check
            /\ actionResp' = [kind |-> "exception"]
            /\ UNCHANGED <<images, metadata, cont>>
       ELSE IF file.type # PNG
       THEN /\ actionResp' = [kind |-> "json", status |-> 400,
                              error |-> <<"Unsupported image format: ", file.type>>]
            /\ UNCHANGED <<images, metadata, cont>>
       ELSE IF maskFile # Null /\ maskFile.type # PNG
       THEN /\ actionResp' = [kind |-> "json", status |-> 400,
                              error |-> <<"Unsupported mask format: ", maskFile.type>>]
            /\ UNCHANGED <<images, metadata, cont>>
       ELSE LET imageBase64 == convertFileToBase64(file)
                prompt == Replace(wallPrompt, "{{color}}", colorHex)
            IN  IF imageBase64.threw
                THEN /\ actionResp' = [kind |-> "json", status |-> 500,
                                       error |-> <<"Failed to process image and prompt">>]
                     /\ UNCHANGED <<images, metadata, cont>>
                ELSE \E imageId \in uuidv4 :
                       LET db == action_store(DB, imageId, imageBase64.value)
                       IN  /\ images' = db.images
                           /\ metadata' = db.metadata
                           /\ cont' = [cont EXCEPT ![imageId] =
                                         [pc |-> "running", prompt |-> prompt,
                                          file |-> file]]
                           /\ actionResp' = [kind |-> "json", status |-> 200,
                                             imageId |-> imageId,
                                             imageBase64 |-> imageBase64.value]

\* processAndStoreImage resumes when processImageAndPrompt settles.  The
\* continuation keeps prompt and file; the mask it is handed is never read
\* (processImageAndPrompt takes two parameters).  Ghost field api: what the
\* external API did with the request, None when it was not called.
ProcessAndStoreImageWith(imageId, outcomes) ==
    /\ cont[imageId].pc = "running"
    /\ \E outcome \in (IF apiKey THEN outcomes ELSE {None}), ts \in Timestamps :
         LET c == cont[imageId]
             response == processImageAndPrompt(apiKey, c.prompt, c.file, outcome)
             g == IF apiKey THEN generateImageWithGptResponse(c.file, outcome)
                  ELSE [threw |-> TRUE]
             db == processAndStoreImage_store(DB, imageId, response, c.file, ts)
         IN  /\ images' = db.images
             /\ metadata' = db.metadata
             /\ giftBasket' = IF ~g.threw /\ g.written
                              THEN Base64Decode(g.value) ELSE giftBasket
             /\ cont' = [cont EXCEPT ![imageId] =
                           [pc |-> "done", prompt |-> c.prompt, file |-> c.file,
                            response |-> response,
                            api |-> IF outcome = None THEN None
                                    ELSE IF outcome.kind = "throws" THEN outcome
                                    ELSE [kind |-> "answers"]]]
    /\ UNCHANGED <<redis, apiKey, actionResp, statusResp, imageResp, lastCall, clientVars>>

ProcessAndStoreImage(imageId) == ProcessAndStoreImageWith(imageId, ApiOutcomes)

(***************************************************************************)
(* GET /api/image/:imageId/status and GET /api/image/:imageId.             *)
(***************************************************************************)
status_loader(db, imageId) ==
    LET status == sqlite_getImageField(db, imageId, "status")
    IN  IF status = Null
        THEN [status |-> 404, body |-> [error |-> <<"Image not found">>]]
        ELSE IF status = Str(<<"error">>)
        THEN LET errorMessage == sqlite_getImageField(db, imageId, "errorMessage")
             IN  [status |-> 200,
                  body |-> [status |-> status,
                            errorMessage |-> IF Truthy(errorMessage) THEN errorMessage
                                             ELSE Str(<<"Unknown error occurred">>)]]
        ELSE [status |-> 200, body |-> [status |-> status]]

image_loader(r, imageId) ==
    LET imageData == redis_getImage(r, imageId)
    IN  IF ~imageData.found
        THEN [status |-> 404, body |-> <<"Image not found">>]
        ELSE IF ~IsStr(Prop(imageData.obj, "data"))
        THEN \* Buffer.from(undefined) throws
             [status |-> 500, body |-> <<"Failed to retrieve image">>]
        ELSE [status |-> 200,
              contentType |-> IF Truthy(Prop(imageData.obj, "fileType"))
                              THEN imageData.obj.fileType ELSE Str(<<JPEG>>),
              cacheControl |-> <<"public, max-age=31536000">>,
              body |-> Base64Decode(imageData.obj.data.s)]

\* ghost fields: issued = the id had been returned by the action,
\* contDone = its continuation had finished, when the request was served
StatusRequest(imageId) ==
    /\ statusResp' = [imageId |-> imageId, resp |-> status_loader(DB, imageId),
                      issued |-> cont[imageId].pc # "none",
                      contDone |-> cont[imageId].pc = "done"]
    /\ UNCHANGED <<images, metadata, redis, apiKey, cont, giftBasket, actionResp, imageResp,
                   lastCall, clientVars>>

\* ghost field: afterCompleted = the status endpoint had just reported
\* 'completed' for this id
ImageRequest(imageId) ==
    /\ imageResp' = [imageId |-> imageId, resp |-> image_loader(redis, imageId),
                     afterCompleted |->
                        /\ statusResp # None
                        /\ statusResp.imageId = imageId
                        /\ statusResp.resp.status = 200
                        /\ statusResp.resp.body.status = Str(<<"completed">>)]
    /\ UNCHANGED <<images, metadata, redis, apiKey, cont, giftBasket, actionResp, statusResp,
                   lastCall, clientVars>>

(***************************************************************************)
(* The state after construction of the browser components and of the       *)
(* server's store modules.                                                 *)
(***************************************************************************)
\* a rational number n/d, d > 0
Rat(n, d) == [n |-> n, d |-> d]

\* ImageUpload's useState initial values; no effect has anything to poll
InitBrowser ==
    /\ pageMounted = TRUE
    /\ actionData = None
    /\ processingStatus = Null
    /\ apiError = Null
    /\ imageReady = FALSE
    /\ timers = {}
    /\ inFlight = [i \in Ids |-> 0]
    /\ reported = FALSE
    /\ observed = None
    /\ polled = None

\* offsetWidth of the container when ImageFlipper mounts
MountWidth == 400

\* ImageFlipper's useState initial values, after its mount effects
InitFlipper ==
    /\ flipperMounted = TRUE
    /\ dividerPosition = Rat(50, 1)
    /\ isDragging = FALSE
    /\ containerWidth = MountWidth
    /\ listeners = {}

InitNormalizer ==
    /\ selectedFile = Null
    /\ previewImage = Null
    /\ conversions = << >>
    /\ canvas = None

\* the callers of getDatabase / getRedisClient: the module's own
\* initialisation call and the requests
Callers == {"init", "request1", "request2"}

Idle == [pc |-> "idle"]

\* `let db = null`, `let redisClient = null`
InitConnections ==
    /\ sqliteDb = None
    /\ redisClient = None
    /\ connections = {}
    /\ callers = [c \in Callers |-> Idle]

(***************************************************************************)
(* The upload pipeline.                                                    *)
(***************************************************************************)
Init ==
    /\ InitBrowser /\ InitFlipper /\ InitNormalizer /\ InitConnections
    /\ images = [i \in Ids |-> NoRow]
    /\ metadata = [i \in Ids |-> EmptyObject]
    /\ redis = [i \in Ids |-> EmptyObject]
    /\ apiKey \in BOOLEAN
    /\ cont = [i \in Ids |-> NotStarted]
    /\ giftBasket = << >>
    /\ actionResp = None
    /\ statusResp = None
    /\ imageResp = None
    /\ lastCall = None

Next ==
    \/ \E file \in Files \cup {Null}, maskFile \in MaskFiles \cup {Null}, colorHex \in Colors :
          Action(file, maskFile, colorHex)
    \/ \E imageId \in Ids : ProcessAndStoreImage(imageId)
    \/ \E imageId \in Ids : StatusRequest(imageId)
    \/ \E imageId \in Ids : ImageRequest(imageId)

Spec == Init /\ [][Next]_vars

(***************************************************************************)
(* The store adapter used directly: any caller may store any record.       *)
(***************************************************************************)
StoreIds == {1}
StoreKeys == {"status", "errorMessage"}
StoreValues == {Str(<< >>), Str(<<"pending">>), Str(<<"error">>),
                Str(<<"invalid ", Quote, "image", Quote>>)}
StoreData == {Null, Str(<< >>), Str(<<"QUFB">>)}
StoreMetadata == UNION {[K -> StoreValues] : K \in SUBSET StoreKeys}

\* await storeImage(imageId, imageData, md) of sqlite.server
StoreImage(imageId, imageData, md) ==
    LET db == sqlite_storeImage(DB, imageId, imageData, md)
    IN  /\ images' = db.images
        /\ metadata' = db.metadata
        /\ UNCHANGED <<redis, apiKey, cont, giftBasket, actionResp, statusResp, imageResp,
                       lastCall, clientVars>>

NextStore ==
    \/ \E imageId \in StoreIds, imageData \in StoreData, md \in StoreMetadata :
          StoreImage(imageId, imageData, md)
    \/ \E imageId \in Ids : StatusRequest(imageId)

SpecStore == Init /\ [][NextStore]_vars

(***************************************************************************)
(* Both store adapters, given the same calls.  Keys are taken not to       *)
(* expire within the window modelled (EXPIRY_SECONDS is one week).         *)
(***************************************************************************)
\* mutant: a missing row is read as a record of NULL columns
sqlite_getImage_norowcheck(db, imageId) ==
    LET meta == db.metadata[imageId]
    IN  [found |-> TRUE,
         obj |-> [k \in ColumnFields \cup DOMAIN meta |->
                     IF k \in DOMAIN meta THEN ParseOrRaw(meta[k])
                     ELSE IF db.images[imageId] # NoRow THEN db.images[imageId][k]
                     ELSE Null]]

\* getImage of sqlite.server; [found |-> FALSE] is the null return
sqlite_getImage(db, imageId) ==
    LET image == db.images[imageId]
        meta == db.metadata[imageId]
    IN  IF image = NoRow THEN [found |-> FALSE]
        ELSE [found |-> TRUE,
              obj |-> [k \in ColumnFields \cup DOMAIN meta |->
                          IF k \in DOMAIN meta THEN ParseOrRaw(meta[k]) ELSE image[k]]]

\* mutant: the metadata rows are left to a cascade that is not enabled
sqlite_deleteImage_nometa(db, imageId) ==
    [db |-> [images |-> [db.images EXCEPT ![imageId] = NoRow],
             metadata |-> db.metadata],
     changes |-> IF db.images[imageId] # NoRow THEN 1 ELSE 0]

\* deleteImage of sqlite.server: the store it leaves and result.changes
sqlite_deleteImage(db, imageId) ==
    [db |-> [images |-> [db.images EXCEPT ![imageId] = NoRow],
             metadata |-> [db.metadata EXCEPT ![imageId] = EmptyObject]],
     changes |-> IF db.images[imageId] # NoRow THEN 1 ELSE 0]

\* storeImage of redis.server: hSet data when truthy, then every metadata
\* entry as JSON text, on top of the fields the hash already has
redis_storeImage(r, imageId, imageStr, md) ==
    LET old == r[imageId]
        withData == IF Truthy(imageStr) THEN ("data" :> imageStr.s) @@ old ELSE old
    IN  [r EXCEPT ![imageId] = [k \in DOMAIN md |-> JSONstringify(md[k])] @@ withData]

redis_getImageField(r, imageId, field) ==
    IF field \notin DOMAIN r[imageId] \/ r[imageId][field] = << >> THEN Null
    ELSE ParseOrRaw(r[imageId][field])

\* deleteImage of redis.server: the store it leaves and the reply of DEL
redis_deleteImage(r, imageId) ==
    [r |-> [r EXCEPT ![imageId] = EmptyObject],
     count |-> IF DOMAIN r[imageId] # {} THEN 1 ELSE 0]

\* the key both storeImage functions return
imageKey(imageId) == <<"image:", imageId>>

AdapterIds == {1}
AdapterData == {Null, Str(<< >>), Str(<<"QUFB">>), Str(<<"null">>)}
\* the values a caller gives each metadata key
AdapterValues ==
    [status |-> {Str(<<"pending">>), Str(<<"completed">>)},
     a |-> {Str(<<"1">>), Bool(TRUE)},
     b |-> {Str(<<"2">>)}]
AdapterMetadata ==
    UNION {{md \in [K -> UNION {AdapterValues[k] : k \in K}] :
               \A k \in K : md[k] \in AdapterValues[k]} : K \in SUBSET DOMAIN AdapterValues}

\* await storeImage(imageId, imageData, md) on each adapter
AdapterStoreImage(imageId, imageData, md) ==
    LET db == sqlite_storeImage(DB, imageId, imageData, md)
    IN  /\ images' = db.images
        /\ metadata' = db.metadata
        /\ redis' = redis_storeImage(redis, imageId, imageData, md)
        /\ lastCall' = [op |-> "storeImage", imageId |-> imageId,
                        sqlite |-> imageKey(imageId), redis |-> imageKey(imageId)]
        /\ UNCHANGED <<apiKey, cont, giftBasket, actionResp, statusResp, imageResp, clientVars>>

\* await deleteImage(imageId) on each adapter
AdapterDeleteImage(imageId) ==
    LET s == sqlite_deleteImage(DB, imageId)
        d == redis_deleteImage(redis, imageId)
    IN  /\ images' = s.db.images
        /\ metadata' = s.db.metadata
        /\ redis' = d.r
        /\ lastCall' = [op |-> "deleteImage", imageId |-> imageId,
                        sqlite |-> s.changes, redis |-> d.count]
        /\ UNCHANGED <<apiKey, cont, giftBasket, actionResp, statusResp, imageResp, clientVars>>

InitAdapters == Init /\ apiKey

NextAdapters ==
    \/ \E imageId \in AdapterIds, imageData \in AdapterData, md \in AdapterMetadata :
          AdapterStoreImage(imageId, imageData, md)
    \/ \E imageId \in Ids : AdapterDeleteImage(imageId)

SpecAdapters == InitAdapters /\ [][NextAdapters]_vars

(***************************************************************************)
(* Properties.                                                             *)
(***************************************************************************)
Pending == Str(<<"pending">>)
Completed == Str(<<"completed">>)
Error == Str(<<"error">>)

StatusOf(id) == IF images[id] = NoRow THEN None ELSE images[id].status
Done(id) == cont[id].pc = "done"
\* the external API was called for id and threw
ApiThrew(id) == Done(id) /\ cont[id].api # None /\ cont[id].api.kind = "throws"
\* processImageAndPrompt answered id's continuation with an image
GotImage(id) == Done(id) /\ cont[id].response # Null /\ IsStr(Prop(cont[id].response, "image"))
\* the base64 payload of that image
GeneratedBase64(id) == SplitPop(cont[id].response.image.s, ";base64,")

\* C1: once the continuation of an accepted submission has finished, its
\* record is no longer 'pending': it is 'completed' if the generation client
\* returned an image, and 'error' with a non-empty message if the client
\* returned an error result or null.
C1_ContinuationLeavesPending ==
    \A id \in Ids :
        Done(id) =>
            /\ StatusOf(id) # Pending
            /\ GotImage(id) => StatusOf(id) = Completed
            /\ ~GotImage(id) =>
                  /\ StatusOf(id) = Error
                  /\ Truthy(sqlite_getImageField(DB, id, "errorMessage"))

\* C2: an existing record changes only in the one step in which its own
\* continuation finishes, and that step takes it from 'pending' to 'completed'
\* or 'error'; so a record in a terminal status never changes again, whatever
\* other submissions, status requests or image requests happen.
C2_SingleTransition ==
    [][\A id \in Ids :
          (images[id] # NoRow /\ (images'[id] # images[id] \/ metadata'[id] # metadata[id]))
          => /\ cont[id].pc = "running" /\ cont'[id].pc = "done"
             /\ images[id].status = Pending
             /\ images'[id].status \in {Completed, Error}]_vars

C2_Witness ==
    \E id \in Ids, other \in Ids :
        /\ id # other
        /\ StatusOf(id) = Completed
        /\ cont[other].pc # "none"
        /\ statusResp # None /\ statusResp.imageId = id /\ statusResp.contDone
        /\ imageResp # None /\ imageResp.imageId = id
        /\ actionResp # None /\ actionResp.kind = "json" /\ actionResp.status = 200
        /\ actionResp.imageId = other

\* C3: every identifier the action has returned has a record, and a status
\* request served after the identifier was returned is never a 404 and
\* reports 'pending' as long as the continuation has not finished.
C3_PendingBeforeReturn ==
    /\ \A id \in Ids : cont[id].pc # "none" => images[id] # NoRow
    /\ (actionResp # None /\ actionResp.kind = "json" /\ actionResp.status = 200)
          => images[actionResp.imageId] # NoRow
    /\ (statusResp # None /\ statusResp.issued)
          => /\ statusResp.resp.status = 200
             /\ ~statusResp.contDone => statusResp.resp.body = [status |-> Pending]

C3_Witness ==
    /\ statusResp # None /\ statusResp.issued /\ ~statusResp.contDone
    /\ statusResp.resp.body = [status |-> Pending]
    /\ Done(statusResp.imageId)

\* what the status loader answers for id in the current store
StatusAnswer(id) == status_loader(DB, id)
HasErrorMessage(id) == "errorMessage" \in DOMAIN metadata[id]

\* C4 as stated: 404 exactly when no record exists; otherwise {status} with
\* the record's status, and for status 'error' the errorMessage stored with
\* the record (the value whose JSON text the metadata table holds).
C4_StatusLoaderAsStated ==
    \A id \in Ids :
        IF images[id] = NoRow
        THEN StatusAnswer(id).status = 404
        ELSE /\ StatusAnswer(id).status = 200
             /\ StatusAnswer(id).body.status = images[id].status
             /\ images[id].status = Error =>
                   /\ HasErrorMessage(id)
                   /\ JSONstringify(StatusAnswer(id).body.errorMessage)
                         = metadata[id]["errorMessage"]

\* C4 amended: 404 when no record exists or the record has no status (NULL);
\* otherwise 200 {status} with the record's status, with no errorMessage
\* unless the status is 'error'; for 'error' the errorMessage is the stored
\* one when a non-empty one is stored, else the text 'Unknown error occurred'.
C4_StatusLoader ==
    \A id \in Ids :
        IF images[id] = NoRow \/ images[id].status = Null
        THEN StatusAnswer(id) = [status |-> 404, body |-> [error |-> <<"Image not found">>]]
        ELSE /\ StatusAnswer(id).status = 200
             /\ StatusAnswer(id).body.status = images[id].status
             /\ images[id].status # Error => DOMAIN StatusAnswer(id).body = {"status"}
             /\ images[id].status = Error =>
                   IF HasErrorMessage(id)
                      /\ metadata[id]["errorMessage"] # JSONstringify(Str(<< >>))
                   THEN /\ IsStr(StatusAnswer(id).body.errorMessage)
                        /\ JSONstringify(StatusAnswer(id).body.errorMessage)
                              = metadata[id]["errorMessage"]
                   ELSE StatusAnswer(id).body.errorMessage = Str(<<"Unknown error occurred">>)

\* a status request answered 'error' with a stored message that needs escaping
C4_Witness ==
    /\ statusResp # None
    /\ statusResp.resp = StatusAnswer(statusResp.imageId)
    /\ statusResp.resp.status = 200
    /\ statusResp.resp.body.status = Error
    /\ statusResp.resp.body.errorMessage = Str(<<"invalid ", Quote, "image", Quote>>)
    /\ \E other \in Ids : StatusAnswer(other).status = 404

\* C5: when the generation service answered a submission with an error
\* carrying message m, a status request served after the continuation has
\* finished returns {status: 'error', errorMessage: m}.
C5_ProviderErrorReported ==
    (statusResp # None /\ statusResp.contDone /\ ApiThrew(statusResp.imageId))
        => statusResp.resp =
              [status |-> 200,
               body |-> [status |-> Error,
                         errorMessage |-> Str(cont[statusResp.imageId].api.message)]]

\* C6: once the status endpoint has reported 'completed' for an identifier,
\* GET /api/image/:imageId returns the bytes of the image the generation step
\* produced for that submission.
C6_CompletedImageServed ==
    (imageResp # None /\ imageResp.afterCompleted /\ GotImage(imageResp.imageId)
        /\ GeneratedBase64(imageResp.imageId) # << >>)
        => /\ imageResp.resp.status = 200
           /\ imageResp.resp.body = Base64Decode(GeneratedBase64(imageResp.imageId))

\* C7: GET /api/image/:imageId answers a record completed by the pipeline
\* with Content-Type image/png, the type of the generated image, not with a
\* default; and answers 404 for an identifier that has no record.
C7_StoredContentType ==
    imageResp # None =>
        /\ (imageResp.afterCompleted /\ GotImage(imageResp.imageId)
              /\ GeneratedBase64(imageResp.imageId) # << >>)
              => /\ imageResp.resp.status = 200
                 /\ imageResp.resp.contentType = Str(<<PNG>>)
        /\ cont[imageResp.imageId].pc = "none" => imageResp.resp.status = 404

\* C8: with a credential configured, a failure of the external API call is
\* returned by processImageAndPrompt as the error result {error: m} carrying
\* the provider's message m, not as null.
C8_StructuredError ==
    \A id \in Ids :
        (apiKey /\ ApiThrew(id)) => cont[id].response = [error |-> Str(cont[id].api.message)]

\* C9: a record with status 'completed' has non-empty data, the generated
\* image.
C9_CompletedHasData ==
    \A id \in Ids :
        StatusOf(id) = Completed
            => /\ Truthy(images[id].data)
               /\ GotImage(id) /\ images[id].data = Str(GeneratedBase64(id))

\* the results processAndStoreImage is written to handle
Responses ==
    {Null}
    \cup {[image |-> Str(<<"data:image/png", ";base64,">> \o g)] : g \in GeneratedImages \cup {<< >>}}
    \cup {[error |-> Str(m)] : m \in Messages}

ErrorMessageIffError(db, id) ==
    db.images[id] # NoRow =>
        /\ db.images[id].status = Error =>
              /\ "errorMessage" \in DOMAIN db.metadata[id]
              /\ Truthy(sqlite_getImageField(db, id, "errorMessage"))
        /\ db.images[id].status # Error => "errorMessage" \notin DOMAIN db.metadata[id]

\* C10: in every reachable state a record carries an errorMessage if and
\* only if its status is 'error'; and whatever result a running continuation
\* is handed (null, an image, an error result), its write keeps it so.
C10_ErrorMessageIffError ==
    \A id \in Ids :
        /\ ErrorMessageIffError(DB, id)
        /\ cont[id].pc = "running" =>
              \A response \in Responses, ts \in Timestamps :
                  ErrorMessageIffError(
                      processAndStoreImage_store(DB, id, response, cont[id].file, ts), id)

C10_Witness ==
    \E id \in Ids, other \in Ids :
        /\ StatusOf(id) = Completed /\ ~HasErrorMessage(id)
        /\ StatusOf(other) = Pending /\ cont[other].pc = "running"

\* C11: a record whose status is 'pending' has empty or absent data.
C11_PendingHasNoData ==
    \A id \in Ids :
        StatusOf(id) = Pending => images[id].data \in {Null, Str(<< >>)}

(***************************************************************************)
(* Store adapters: what a read returns after a write, from every state     *)
(* the adapters reach.                                                     *)
(***************************************************************************)
SqliteGet(id) == sqlite_getImage(DB, id)
RedisGet(id) == redis_getImage(redis, id)
SqliteAfterStore(id, data, md) == sqlite_getImage(sqlite_storeImage(DB, id, data, md), id)
RedisAfterStore(id, data, md) == redis_getImage(redis_storeImage(redis, id, data, md), id)
AdapterStrings == AdapterData \ {Null}
AdapterFields == ColumnFields \cup DOMAIN AdapterValues \cup {"errorMessage"}

\* get returns data and every metadata entry of the store before it
RoundTrip(got, data, md) ==
    /\ got.found
    /\ Prop(got.obj, "data") = data
    /\ \A k \in DOMAIN md : Prop(got.obj, k) = md[k]

\* the SQLite adapter alone round-trips every string data and metadata map
SqliteRoundTrip ==
    \A id \in AdapterIds, data \in AdapterStrings, md \in AdapterMetadata :
        RoundTrip(SqliteAfterStore(id, data, md), data, md)

\* C12: for every identifier, data string and metadata map, storeImage
\* followed by getImage returns data and every metadata entry exactly, on
\* either adapter.
C12_StoreRoundTrip ==
    /\ SqliteRoundTrip
    /\ \A id \in AdapterIds, data \in AdapterStrings, md \in AdapterMetadata :
          RoundTrip(RedisAfterStore(id, data, md), data, md)

\* a second store on an existing record: supplied direct fields take the
\* new value, unsupplied ones (and data given as null) keep the prior one
Overwrites(before, after, data, md) ==
    before.found =>
        /\ after.found
        /\ Prop(after.obj, "data") = IF data # Null THEN data ELSE Prop(before.obj, "data")
        /\ Prop(after.obj, "status") = IF "status" \in DOMAIN md THEN md["status"]
                                      ELSE Prop(before.obj, "status")

SqliteOverwrites ==
    \A id \in AdapterIds, data \in AdapterData, md \in AdapterMetadata :
        Overwrites(SqliteGet(id), SqliteAfterStore(id, data, md), data, md)

\* C13: a storeImage call on an existing id overwrites exactly the direct
\* fields it supplies and keeps the others; null data keeps the prior data;
\* on either adapter.
C13_OverwriteSemantics ==
    /\ SqliteOverwrites
    /\ \A id \in AdapterIds, data \in AdapterData, md \in AdapterMetadata :
          Overwrites(RedisGet(id), RedisAfterStore(id, data, md), data, md)

\* after the store, the extra metadata is exactly that of the call
Replaces(after, md) ==
    /\ after.found
    /\ \A k \in DOMAIN md : Prop(after.obj, k) = md[k]
    /\ DOMAIN after.obj \ ColumnFields = DOMAIN md \ ColumnFields

SqliteReplaces ==
    \A id \in AdapterIds, data \in AdapterStrings, md \in AdapterMetadata :
        SqliteGet(id).found => Replaces(SqliteAfterStore(id, data, md), md)

\* C14: every storeImage call on an existing id replaces the extra metadata
\* (after {a} then {b}, b is there and a is not), on both adapters.
C14_MetadataReplaced ==
    /\ SqliteReplaces
    /\ \A id \in AdapterIds, data \in AdapterStrings, md \in AdapterMetadata :
          RedisGet(id).found => Replaces(RedisAfterStore(id, data, md), md)

\* id was never stored, or the last writing call deleted it
NeverStoredOrDeleted(id) ==
    \/ lastCall = None
    \/ id \notin AdapterIds
    \/ lastCall.op = "deleteImage" /\ lastCall.imageId = id

\* C15: for an identifier never stored, or deleted, getImage returns null
\* and getImageField returns null for every field, on both adapters.
C15_AbsentReadsNull ==
    \A id \in Ids :
        NeverStoredOrDeleted(id) =>
            /\ ~SqliteGet(id).found
            /\ ~RedisGet(id).found
            /\ \A f \in AdapterFields :
                  /\ sqlite_getImageField(DB, id, f) = Null
                  /\ redis_getImageField(redis, id, f) = Null

C15_Witness ==
    /\ lastCall # None /\ lastCall.op = "deleteImage" /\ lastCall.imageId \in AdapterIds
    /\ lastCall.sqlite = 1 /\ lastCall.redis = 1
    /\ ~SqliteGet(lastCall.imageId).found /\ ~RedisGet(lastCall.imageId).found

SqliteFieldEqualsGet ==
    \A id \in AdapterIds :
        SqliteGet(id).found =>
            \A f \in DOMAIN SqliteGet(id).obj :
                sqlite_getImageField(DB, id, f) = SqliteGet(id).obj[f]

\* C16: getImageField(id, field) equals getImage(id)[field] for every
\* stored record and every field it has, the data field included, on both
\* adapters.
C16_FieldEqualsGet ==
    /\ SqliteFieldEqualsGet
    /\ \A id \in AdapterIds :
          RedisGet(id).found =>
              \A f \in DOMAIN RedisGet(id).obj :
                  redis_getImageField(redis, id, f) = RedisGet(id).obj[f]

\* C17: deleteImage returns 1 if the record existed and 0 if not; after
\* it getImage and every getImageField return null; and a later storeImage
\* brings back nothing of the deleted record.  On both adapters, for a
\* delete from any reachable state and for the delete last made.
C17_DeleteRemovesAll ==
    /\ \A id \in Ids :
          LET s == sqlite_deleteImage(DB, id)
              d == redis_deleteImage(redis, id)
          IN  /\ s.changes = IF SqliteGet(id).found THEN 1 ELSE 0
              /\ d.count = IF RedisGet(id).found THEN 1 ELSE 0
              /\ ~sqlite_getImage(s.db, id).found
              /\ ~redis_getImage(d.r, id).found
              /\ \A f \in AdapterFields :
                    /\ sqlite_getImageField(s.db, id, f) = Null
                    /\ redis_getImageField(d.r, id, f) = Null
              /\ \A md \in AdapterMetadata :
                    /\ DOMAIN sqlite_getImage(sqlite_storeImage(s.db, id, Null, md), id).obj
                          = ColumnFields \cup DOMAIN md
                    /\ sqlite_getImage(sqlite_storeImage(s.db, id, Null, md), id).obj["data"] = Null
                    /\ md # EmptyObject =>
                          DOMAIN redis_getImage(redis_storeImage(d.r, id, Null, md), id).obj
                             = DOMAIN md
    /\ (lastCall # None /\ lastCall.op = "deleteImage")
          => /\ images[lastCall.imageId] = NoRow
             /\ metadata[lastCall.imageId] = EmptyObject
             /\ redis[lastCall.imageId] = EmptyObject
             /\ lastCall.sqlite \in {0, 1} /\ lastCall.redis \in {0, 1}

C17_Witness ==
    /\ lastCall # None /\ lastCall.op = "deleteImage"
    /\ lastCall.sqlite = 1 /\ lastCall.redis = 1

\* C18: the two adapters, given the same sequence of calls, return the same
\* results: the same getImage, the same getImageField for every field, the
\* same results of storeImage and deleteImage.
C18_AdaptersAgree ==
    /\ \A id \in Ids :
          /\ SqliteGet(id) = RedisGet(id)
          /\ \A f \in AdapterFields :
                sqlite_getImageField(DB, id, f) = redis_getImageField(redis, id, f)
    /\ lastCall # None => lastCall.sqlite = lastCall.redis

(***************************************************************************)
(* Upload action: submissions it has to reject.                            *)
(***************************************************************************)
\* the step answered with a client error and touched neither the store nor
\* the generation
Rejected(lo, hi) ==
    /\ actionResp'.kind = "json"
    /\ actionResp'.status \in lo..hi
    /\ "error" \in DOMAIN actionResp'
    /\ UNCHANGED <<images, metadata, cont, giftBasket>>

\* C19: a submission without an 'image' file is answered {error} with a
\* 4xx status, writes no record and starts no generation; the action does
\* not end in an exception.
C19_MissingImageRejected ==
    [][(\E maskFile \in MaskFiles \cup {Null}, colorHex \in Colors :
            Action(Null, maskFile, colorHex))
          => Rejected(400, 499)]_vars

BadType(file, maskFile) ==
    \/ file # Null /\ file.type # PNG
    \/ maskFile # Null /\ maskFile.type # PNG

\* with an image file in the form, a wrong media type of image or mask is
\* answered 400 {error} and nothing else happens
WrongTypeRejectedGivenImage ==
    [][(\E file \in Files, maskFile \in MaskFiles \cup {Null}, colorHex \in Colors :
            BadType(file, maskFile) /\ Action(file, maskFile, colorHex))
          => Rejected(400, 400)]_vars

\* C20: when the image file, or a provided mask file, is not image/png, the
\* action returns 400 {error}, writes no record and starts no generation.
C20_WrongTypeRejected ==
    [][(\E file \in Files \cup {Null}, maskFile \in MaskFiles \cup {Null}, colorHex \in Colors :
            BadType(file, maskFile) /\ Action(file, maskFile, colorHex))
          => Rejected(400, 400)]_vars

(***************************************************************************)
(* The upload page (ImageUpload of routes/image-upload) polling the status *)
(* endpoint for the imageId the action returned.                           *)
(***************************************************************************)
\* most status requests in flight at once that are explored
MaxInFlight == 2

RECURSIVE Sum(_, _)
Sum(f, S) == IF S = {} THEN 0 ELSE LET x == CHOOSE x \in S : TRUE IN f[x] + Sum(f, S \ {x})

\* another fetch can be started
CanFetch == Sum(inFlight, Ids) < MaxInFlight

\* the body of the action's response as useActionData() hands it over
actionDataOf(resp) ==
    IF resp.status = 200
    THEN [response |-> [imageId |-> resp.imageId, imageBase64 |-> resp.imageBase64]]
    ELSE [error |-> resp.error]

\* actionData?.response?.imageId as a set: empty for undefined
imageIdOf(ad) ==
    IF ad # None /\ "response" \in DOMAIN ad THEN {ad.response.imageId} ELSE {}

\* isMounted of the effect that polls id: its cleanup has not run
isMounted(id) == pageMounted /\ id \in imageIdOf(actionData)

\* mutant: the response is applied whether or not the effect is still mounted
checkImageStatus_unguarded(mounted, resp, page) ==
    IF resp.status # 200 THEN page @@ [clear |-> FALSE]
    ELSE LET data == resp.body
         IN  IF data.status = Str(<<"error">>)
             THEN [processingStatus |-> data.status,
                   apiError |-> IF Truthy(Prop(data, "errorMessage")) THEN data.errorMessage
                                ELSE Str(<<"An error occurred while processing the image">>),
                   imageReady |-> page.imageReady, clear |-> TRUE]
             ELSE IF data.status = Str(<<"completed">>)
             THEN [processingStatus |-> data.status, apiError |-> page.apiError,
                   imageReady |-> TRUE, clear |-> TRUE]
             ELSE [processingStatus |-> data.status, apiError |-> page.apiError,
                   imageReady |-> page.imageReady, clear |-> FALSE]

\* checkImageStatus from the point its fetch has answered with resp: the
\* page state it leaves, and whether it clears the interval timer
checkImageStatus(mounted, resp, page) ==
    IF resp.status # 200 \/ ~mounted THEN page @@ [clear |-> FALSE]
    ELSE LET data == resp.body
         IN  IF data.status = Str(<<"error">>)
             THEN [processingStatus |-> data.status,
                   apiError |-> IF Truthy(Prop(data, "errorMessage")) THEN data.errorMessage
                                ELSE Str(<<"An error occurred while processing the image">>),
                   imageReady |-> page.imageReady, clear |-> TRUE]
             ELSE IF data.status = Str(<<"completed">>)
             THEN [processingStatus |-> data.status, apiError |-> page.apiError,
                   imageReady |-> TRUE, clear |-> TRUE]
             ELSE [processingStatus |-> data.status, apiError |-> page.apiError,
                   imageReady |-> page.imageReady, clear |-> FALSE]

Terminal == {Str(<<"completed">>), Str(<<"error">>)}

\* The response of the last submission reaches the page: React commits the
\* new actionData and, when the imageId changed, runs the cleanup of the
\* old polling effect and then the new effect (the initial check and
\* setInterval).
UseActionData ==
    /\ pageMounted
    /\ actionResp # None /\ actionResp.kind = "json"
    /\ actionData # actionDataOf(actionResp)
    /\ LET ad == actionDataOf(actionResp)
           old == imageIdOf(actionData)
           new == imageIdOf(ad)
       IN  /\ (new # old /\ new # {}) => CanFetch
           /\ actionData' = ad
           /\ reported' = IF new = old THEN reported ELSE FALSE
           /\ IF new = old
              THEN UNCHANGED <<apiError, timers, inFlight>>
              ELSE IF new = {}
              THEN /\ timers' = timers \ old
                   /\ UNCHANGED <<apiError, inFlight>>
              ELSE /\ apiError' = Null
                   /\ timers' = (timers \ old) \cup new
                   /\ inFlight' = [i \in Ids |-> IF i \in new THEN inFlight[i] + 1
                                                ELSE inFlight[i]]
           /\ observed' = IF new = old THEN observed ELSE None
    /\ UNCHANGED <<pageMounted, processingStatus, imageReady, polled>>
    /\ UNCHANGED <<images, metadata, redis, apiKey, cont, giftBasket, actionResp, statusResp,
                   imageResp, lastCall, flipperVars, normalizerVars, connectionVars>>

\* the interval timer of the effect polling id fires: checkImageStatus
\* starts a fetch
IntervalFires(id) ==
    /\ id \in timers
    /\ CanFetch
    /\ inFlight' = [inFlight EXCEPT ![id] = @ + 1]
    /\ UNCHANGED <<pageMounted, actionData, processingStatus, apiError, imageReady, timers,
                   reported, observed, polled>>
    /\ UNCHANGED <<images, metadata, redis, apiKey, cont, giftBasket, actionResp, statusResp,
                   imageResp, lastCall, flipperVars, normalizerVars, connectionVars>>

\* the status endpoint answers one request for id and checkImageStatus
\* resumes with the response
StatusResponse(id) ==
    /\ inFlight[id] > 0
    /\ LET resp == status_loader(DB, id)
           page == [processingStatus |-> processingStatus, apiError |-> apiError,
                    imageReady |-> imageReady]
           new == checkImageStatus(isMounted(id), resp, page)
       IN  /\ inFlight' = [inFlight EXCEPT ![id] = @ - 1]
           /\ processingStatus' = new.processingStatus
           /\ apiError' = new.apiError
           /\ imageReady' = new.imageReady
           /\ timers' = IF new.clear THEN timers \ {id} ELSE timers
           /\ polled' = [stale |-> ~isMounted(id),
                          terminal |-> resp.status = 200 /\ resp.body.status \in Terminal]
           /\ reported' = IF resp.status = 200 /\ resp.body.status \in Terminal /\ isMounted(id)
                          THEN TRUE ELSE reported
           /\ observed' = IF resp.status = 200 /\ isMounted(id)
                          THEN resp.body.status ELSE observed
    /\ UNCHANGED <<pageMounted, actionData>>
    /\ UNCHANGED <<images, metadata, redis, apiKey, cont, giftBasket, actionResp, statusResp,
                   imageResp, lastCall, flipperVars, normalizerVars, connectionVars>>

\* the page is left: the cleanup of the current polling effect runs
Unmount ==
    /\ pageMounted
    /\ pageMounted' = FALSE
    /\ timers' = timers \ imageIdOf(actionData)
    /\ UNCHANGED <<actionData, processingStatus, apiError, imageReady, inFlight, reported,
                   observed, polled>>
    /\ UNCHANGED <<images, metadata, redis, apiKey, cont, giftBasket, actionResp, statusResp,
                   imageResp, lastCall, flipperVars, normalizerVars, connectionVars>>

\* the files the page's form submits
BrowserFiles == {f \in Files : f.readable}

\* the form is submitted and the action handles it; identifiers are taken
\* in order (any two fresh identifiers behave alike)
SubmitForm(file, colorHex) ==
    /\ pageMounted
    /\ Action(file, Null, colorHex)
    /\ actionResp'.status = 200 => \A i \in uuidv4 : actionResp'.imageId <= i

\* what the generation API does with a request of the page, as far as the
\* page can tell: it throws, or answers without or with an image
PageApiOutcomes ==
    {[kind |-> "throws", message |-> <<"quota exceeded">>]}
    \cup {[kind |-> "answers", output |-> o] :
             o \in {<< >>} \cup {<<[type |-> "image_generation_call", result |-> Str(g)]>> :
                                    g \in GeneratedImages}}

GenerationSettles(imageId) == ProcessAndStoreImageWith(imageId, PageApiOutcomes)

NextBrowser ==
    \/ \E file \in BrowserFiles, colorHex \in Colors : SubmitForm(file, colorHex)
    \/ \E imageId \in Ids : GenerationSettles(imageId)
    \/ UseActionData
    \/ \E id \in Ids : IntervalFires(id)
    \/ \E id \in Ids : StatusResponse(id)
    \/ Unmount

SpecBrowser == Init /\ [][NextBrowser]_vars

\* every started step is eventually taken: timers fire, requests are
\* answered, continuations settle, responses reach the page
SpecBrowserFair ==
    /\ SpecBrowser
    /\ WF_vars(UseActionData)
    /\ \A id \in Ids :
          /\ WF_vars(IntervalFires(id))
          /\ WF_vars(StatusResponse(id))
          /\ WF_vars(GenerationSettles(id))

(***************************************************************************)
(* Upload page: polling.                                                   *)
(***************************************************************************)
\* a status request for id is started in this step
StartsRequest(id) == inFlight'[id] > inFlight[id]

\* while its effect is mounted and no response reported a terminal status,
\* the interval timer of id is running
PollingContinues ==
    \A id \in Ids : (isMounted(id) /\ ~reported) => id \in timers

\* a status request is started only for the current imageId, and not after
\* a response reported a terminal status for it
NoRequestAfterTerminal ==
    [][\A id \in Ids :
          StartsRequest(id) => /\ id \in imageIdOf(actionData')
                               /\ id \in imageIdOf(actionData) => ~reported]_vars

\* the polling of every id stops
PollingStops == \A id \in Ids : (id \in timers) ~> (id \notin timers)

\* C21: polling for a submitted imageId continues until a status response
\* reports 'completed' or 'error', no status request for it is started
\* after the first such response, and the polling of every accepted
\* submission eventually stops.
C21_PollingUntilTerminal ==
    /\ []PollingContinues
    /\ NoRequestAfterTerminal
    /\ PollingStops

\* C27: there is at most one interval timer, and at any moment at most one
\* status request for an imageId is in flight.
C27_NoOverlappingPolls ==
    /\ Cardinality(timers) <= 1
    /\ \A id \in Ids : inFlight[id] <= 1

\* C29: the page shows the result of a submission (the comparison widget
\* for 'completed', the error panel for 'error') for the current imageId
\* only when a status poll for that imageId has returned that status.
C29_ResultOfCurrentImage ==
    \A id \in Ids :
        (pageMounted /\ id \in imageIdOf(actionData) /\ processingStatus \in Terminal)
            => observed = processingStatus

\* no interval timer runs for an id other than the current one of a
\* mounted page
NoTimerLeft == timers \subseteq (IF pageMounted THEN imageIdOf(actionData) ELSE {})

\* C30: a status response arriving after the page unmounted, or after a
\* newer submission replaced the imageId it was requested for, leaves
\* processingStatus, apiError and imageReady as they are; and no interval
\* timer is left running for an old imageId.
C30_StaleResponseIgnored ==
    /\ []NoTimerLeft
    /\ [][\A id \in Ids :
            (StatusResponse(id) /\ ~isMounted(id))
               => UNCHANGED <<processingStatus, apiError, imageReady>>]_vars

\* the status response of a replaced imageId arrived, reporting the
\* terminal status of its record, while the page shows a newer submission
C30_Witness ==
    /\ polled # None /\ polled.stale /\ polled.terminal
    /\ pageMounted /\ imageIdOf(actionData) # {}

(***************************************************************************)
(* The comparison widget (components/ImageFlipper).  A handler, the render *)
(* it causes and the effects of that render are one step: React flushes    *)
(* the effects of a discrete event before the next event is handled.       *)
(***************************************************************************)
\* widths the container is laid out with, and horizontal offsets
\* clientX - containerRect.left of move events, in pixels
Widths == {100, 200, 300, 400}
OffsetsX == {-100, 0, 50, 100, 150, 300, 500}

RECURSIVE GCD(_, _)
GCD(a, b) == IF b = 0 THEN a ELSE GCD(b, a % b)

\* n/d in lowest terms (n >= 0, d > 0)
Lowest(r) == LET g == GCD(r.n, r.d) IN Rat(r.n \div g, r.d \div g)

RatLeq(a, b) == a.n * b.d <= b.n * a.d
RatMin(a, b) == IF RatLeq(a, b) THEN a ELSE b
RatMax(a, b) == IF RatLeq(a, b) THEN b ELSE a

\* mutant: the percentage is only kept from falling below 0
newPosition_nomin(x, width) == Lowest(RatMax(Rat(0, 1), Rat(x * 100, width)))

\* Math.max(0, Math.min(100, (x / containerRect.width) * 100))
newPosition(x, width) ==
    Lowest(RatMax(Rat(0, 1), RatMin(Rat(100, 1), Rat(x * 100, width))))

GlobalEvents == {"mouseup", "touchend"}

\* mutant: the effect attaches the listeners and its cleanup is missing
dragEffect_nocleanup(attached, dragging) ==
    IF dragging THEN attached \cup GlobalEvents ELSE attached

\* the effect on [isDragging, handleMouseUp]: the cleanup of its previous
\* run, then its body; the listeners of `document` it leaves
dragEffect(attached, dragging) ==
    LET cleaned == attached \ GlobalEvents
    IN  IF dragging THEN cleaned \cup GlobalEvents ELSE cleaned \ GlobalEvents

\* setIsDragging(value) and the effect run its render causes
SetIsDragging(value) ==
    /\ isDragging' = value
    /\ listeners' = IF value = isDragging THEN listeners ELSE dragEffect(listeners, value)

FlipperFrame ==
    UNCHANGED <<images, metadata, redis, apiKey, cont, giftBasket, actionResp, statusResp,
                imageResp, lastCall, browserVars, normalizerVars, connectionVars>>

\* onMouseDown of the divider
handleMouseDown ==
    /\ flipperMounted
    /\ SetIsDragging(TRUE)
    /\ UNCHANGED <<flipperMounted, dividerPosition, containerWidth>>
    /\ FlipperFrame

\* onTouchStart of the divider
handleTouchStart ==
    /\ flipperMounted
    /\ SetIsDragging(TRUE)
    /\ UNCHANGED <<flipperMounted, dividerPosition, containerWidth>>
    /\ FlipperFrame

\* onMouseMove of the container, the pointer at offset x in a container
\* of the given width
handleMouseMove(x, width) ==
    /\ flipperMounted
    /\ dividerPosition' = IF isDragging THEN newPosition(x, width) ELSE dividerPosition
    /\ UNCHANGED <<flipperMounted, isDragging, containerWidth, listeners>>
    /\ FlipperFrame

\* onTouchMove of the container, the first touch at offset x
handleTouchMove(x, width) ==
    /\ flipperMounted
    /\ dividerPosition' = IF isDragging THEN newPosition(x, width) ELSE dividerPosition
    /\ UNCHANGED <<flipperMounted, isDragging, containerWidth, listeners>>
    /\ FlipperFrame

\* a mouseup or touchend event reaches `document`: handleMouseUp runs when
\* it is attached to that event
DocumentEvent(event) ==
    /\ event \in listeners
    /\ SetIsDragging(FALSE)
    /\ UNCHANGED <<flipperMounted, dividerPosition, containerWidth>>
    /\ FlipperFrame

\* the window is resized: updateDimensions
Resize(width) ==
    /\ flipperMounted
    /\ containerWidth' = width
    /\ UNCHANGED <<flipperMounted, dividerPosition, isDragging, listeners>>
    /\ FlipperFrame

\* the widget is removed: the cleanup of the effect runs
UnmountFlipper ==
    /\ flipperMounted
    /\ flipperMounted' = FALSE
    /\ listeners' = dragEffect(listeners, FALSE)
    /\ UNCHANGED <<dividerPosition, isDragging, containerWidth>>
    /\ FlipperFrame

NextFlipper ==
    \/ handleMouseDown
    \/ handleTouchStart
    \/ \E x \in OffsetsX, width \in Widths : handleMouseMove(x, width)
    \/ \E x \in OffsetsX, width \in Widths : handleTouchMove(x, width)
    \/ \E event \in GlobalEvents : DocumentEvent(event)
    \/ \E width \in Widths : Resize(width)
    \/ UnmountFlipper

\* the server plays no part: one value of its configuration is enough
InitClient == Init /\ apiKey

SpecFlipper == InitClient /\ [][NextFlipper]_vars

(***************************************************************************)
(* Comparison widget: divider position and global listeners.               *)
(***************************************************************************)
\* min(100, max(0, 100*x/w)), by cases
ClampedPercent(x, w) ==
    IF x <= 0 THEN Rat(0, 1)
    ELSE IF x >= w THEN Rat(100, 1)
    ELSE Lowest(Rat(100 * x, w))

PositionInRange ==
    RatLeq(Rat(0, 1), dividerPosition) /\ RatLeq(dividerPosition, Rat(100, 1))

\* C22: while dragging, a mouse or touch move at offset x in a container of
\* width w sets the divider position to min(100, max(0, 100*x/w)); the
\* position is within [0, 100] in every reachable state.
C22_DividerClamped ==
    /\ []PositionInRange
    /\ [][\A x \in OffsetsX, w \in Widths :
            (isDragging /\ (handleMouseMove(x, w) \/ handleTouchMove(x, w)))
               => dividerPosition' = ClampedPercent(x, w)]_vars

\* a drag has put the divider at 75 percent (x = 300, w = 400)
C22_Witness ==
    /\ isDragging /\ flipperMounted
    /\ dividerPosition = newPosition(300, 400)
    /\ dividerPosition = Rat(75, 1)

DraggingActive == flipperMounted /\ isDragging

\* C28: handleMouseUp is attached to document's mouseup and touchend
\* exactly while a drag is active (not before a drag, not after its end,
\* not after unmount), and the divider position changes only while a drag
\* is active.
C28_ListenersOnlyWhileDragging ==
    /\ [](listeners = IF DraggingActive THEN GlobalEvents ELSE {})
    /\ [][dividerPosition' # dividerPosition => DraggingActive]_vars

\* the widget was unmounted in the middle of a drag that had moved the
\* divider
C28_Witness ==
    /\ ~flipperMounted /\ isDragging
    /\ dividerPosition # Rat(50, 1)
    /\ listeners = {}

(***************************************************************************)
(* The file input of the upload page and the image normalizer              *)
(* (convertToPng of api/helpers, handleFileChange of routes/image-upload). *)
(***************************************************************************)
\* handleFileChange calls that are explored
MaxFileChanges == 2

\* side of the canvas convertToPng draws to
CanvasSize == 1024

\* the files the user picks: name, media type, and what the browser makes
\* of them as an image (decodes = img.onload fires, with width and height)
PickedFiles ==
    {[name |-> <<"room", ".jpg">>, type |-> JPEG, decodes |-> TRUE, width |-> 1600, height |-> 900],
     [name |-> <<"door", ".jpg">>, type |-> JPEG, decodes |-> TRUE, width |-> 900, height |-> 1600],
     [name |-> <<"wall", ".png">>, type |-> PNG, decodes |-> TRUE, width |-> 1024, height |-> 1024],
     [name |-> <<"icon", ".png">>, type |-> PNG, decodes |-> TRUE, width |-> 3, height |-> 2],
     [name |-> <<"notes", ".txt">>, type |-> "text/plain", decodes |-> FALSE, width |-> 0, height |-> 0]}

\* what the canvas does: getContext("2d") gives a context or null, toBlob
\* hands its callback a blob or null
CanvasOutcomes == [ctx : BOOLEAN, blob : BOOLEAN]

\* mutant: the crop starts at the top left corner
crop_corner(w, h) ==
    [sourceX |-> Rat(0, 1), sourceY |-> Rat(0, 1),
     sourceWidth |-> IF w > h THEN h ELSE w, sourceHeight |-> IF w > h THEN h ELSE w]

\* sourceX, sourceY, sourceWidth, sourceHeight of convertToPng for an
\* image of width w and height h
crop(w, h) ==
    IF w # h
    THEN IF w > h
         THEN [sourceX |-> Lowest(Rat(w - h, 2)), sourceY |-> Rat(0, 1),
               sourceWidth |-> h, sourceHeight |-> h]
         ELSE [sourceX |-> Rat(0, 1), sourceY |-> Lowest(Rat(h - w, 2)),
               sourceWidth |-> w, sourceHeight |-> w]
    ELSE [sourceX |-> Rat(0, 1), sourceY |-> Rat(0, 1), sourceWidth |-> w, sourceHeight |-> h]

\* file.name.replace(/\.[^\.]+$/, ".png") on a name <<stem, extension>>
pngName(name) == <<name[1], ".png">>

\* convertToPng(file): how its promise ends (settled FALSE: it never
\* does), the drawImage call it made, None when it made none
convertToPng(file, env) ==
    IF ~file.decodes
    THEN [settled |-> TRUE, rejected |-> TRUE, drawn |-> None,
          error |-> <<"Failed to load image">>]
    ELSE IF ~env.ctx
    THEN [settled |-> TRUE, rejected |-> TRUE, drawn |-> None,
          error |-> <<"Failed to get canvas context">>]
    ELSE LET drawn == crop(file.width, file.height) @@
                      [image |-> [width |-> file.width, height |-> file.height],
                       dx |-> 0, dy |-> 0, dWidth |-> CanvasSize, dHeight |-> CanvasSize,
                       canvas |-> [width |-> CanvasSize, height |-> CanvasSize]]
         IN  IF ~env.blob
             THEN \* the callback of toBlob throws; resolve is never called
                  [settled |-> FALSE, drawn |-> drawn]
             ELSE [settled |-> TRUE, rejected |-> FALSE, drawn |-> drawn,
                   value |-> [name |-> pngName(file.name), type |-> PNG, of |-> file.name]]

NormalizerFrame ==
    UNCHANGED <<images, metadata, redis, apiKey, cont, giftBasket, actionResp, statusResp,
                imageResp, lastCall, browserVars, flipperVars, connectionVars>>

\* the change event of the file input with no file chosen
handleFileChange_none ==
    /\ Len(conversions) < MaxFileChanges
    /\ conversions' = Append(conversions, [pc |-> "done"])
    /\ previewImage' = Null
    /\ selectedFile' = Null
    /\ UNCHANGED canvas
    /\ NormalizerFrame

\* the change event with a file: handleFileChange up to `await convertToPng`
handleFileChange(file) ==
    /\ Len(conversions) < MaxFileChanges
    /\ conversions' = Append(conversions, [pc |-> "await convertToPng", file |-> file])
    /\ UNCHANGED <<previewImage, selectedFile, canvas>>
    /\ NormalizerFrame

\* convertToPng of the i-th handleFileChange call runs to its end and the
\* handler resumes, when the promise settles
convertToPngEnds(i, env) ==
    /\ i \in DOMAIN conversions
    /\ conversions[i].pc = "await convertToPng"
    /\ LET file == conversions[i].file
           r == convertToPng(file, env)
       IN  /\ canvas' = IF r.drawn = None THEN canvas ELSE r.drawn
           /\ IF ~r.settled
              THEN /\ conversions' = [conversions EXCEPT ![i] = [pc |-> "never resumed"]]
                   /\ UNCHANGED <<previewImage, selectedFile>>
              ELSE /\ conversions' = [conversions EXCEPT ![i] = [pc |-> "done"]]
                   /\ previewImage' = IF r.rejected THEN file ELSE r.value
                   /\ selectedFile' = IF r.rejected THEN file ELSE r.value
    /\ NormalizerFrame

NextNormalizer ==
    \/ handleFileChange_none
    \/ \E file \in PickedFiles : handleFileChange(file)
    \/ \E i \in 1..MaxFileChanges, env \in CanvasOutcomes : convertToPngEnds(i, env)

SpecNormalizer == InitClient /\ [][NextNormalizer]_vars

(***************************************************************************)
(* Image normalizer: crop rule and failure fallback.                       *)
(***************************************************************************)
\* image sides the crop rule is computed for
Sides == {1, 2, 3, 4, 5, 900, 1024, 1600}

\* the region (sourceX, sourceY, side, side) is the centered square of side
\* min(w, h) of a w by h image, as the rule states it, and lies inside it
CropAsStated(c, w, h) ==
    LET side == IF w < h THEN w ELSE h
    IN  /\ c.sourceWidth = side /\ c.sourceHeight = side
        /\ IF w > h THEN c.sourceX = Lowest(Rat(w - h, 2)) /\ c.sourceY = Rat(0, 1)
           ELSE IF h > w THEN c.sourceX = Rat(0, 1) /\ c.sourceY = Lowest(Rat(h - w, 2))
           ELSE c.sourceX = Rat(0, 1) /\ c.sourceY = Rat(0, 1)
        \* centered: the margins on both sides are equal
        /\ 2 * c.sourceX.n + side * c.sourceX.d = w * c.sourceX.d
        /\ 2 * c.sourceY.n + side * c.sourceY.d = h * c.sourceY.d
        \* inside the image
        /\ c.sourceX.n >= 0 /\ c.sourceX.n + side * c.sourceX.d <= w * c.sourceX.d
        /\ c.sourceY.n >= 0 /\ c.sourceY.n + side * c.sourceY.d <= h * c.sourceY.d

\* C23: for every source width w and height h, convertToPng draws the
\* centered square of side min(w, h), which lies inside the image, to a
\* 1024 by 1024 canvas (1600 by 900: sourceX 350, sourceY 0, side 900).
C23_CropRule ==
    /\ \A w \in Sides, h \in Sides : CropAsStated(crop(w, h), w, h)
    /\ crop(1600, 900) = [sourceX |-> Rat(350, 1), sourceY |-> Rat(0, 1),
                          sourceWidth |-> 900, sourceHeight |-> 900]
    /\ canvas # None =>
          /\ CropAsStated(canvas, canvas.image.width, canvas.image.height)
          /\ canvas.dx = 0 /\ canvas.dy = 0
          /\ canvas.dWidth = 1024 /\ canvas.dHeight = 1024
          /\ canvas.canvas = [width |-> 1024, height |-> 1024]

\* the 1600 by 900 image has been drawn
C23_Witness ==
    /\ canvas # None
    /\ canvas.image = [width |-> 1600, height |-> 900]
    /\ canvas.sourceX = Rat(350, 1) /\ canvas.sourceY = Rat(0, 1)
    /\ canvas.sourceWidth = 900 /\ canvas.sourceHeight = 900

\* this step is handleFileChange resuming after convertToPng ended, and it
\* selected the original file
FellBack(i) ==
    /\ conversions'[i].pc = "done"
    /\ selectedFile' = conversions[i].file
    /\ previewImage' = conversions[i].file

\* a conversion that rejects (the image does not decode, there is no
\* canvas context) makes handleFileChange select the original file
FallbackOnRejection ==
    [][\A i \in 1..MaxFileChanges, env \in CanvasOutcomes :
          (convertToPngEnds(i, env) /\ (~conversions[i].file.decodes \/ ~env.ctx))
             => FellBack(i)]_vars

\* no handleFileChange call is left waiting for a promise that never settles
NoHandlerHangs == \A i \in DOMAIN conversions : conversions[i].pc # "never resumed"

\* C24: for every failure of convertToPng (the image does not decode, no
\* canvas context, toBlob yields no blob) the promise settles and
\* handleFileChange selects the original file; the handler never hangs.
C24_NormalizerFallback ==
    /\ []NoHandlerHangs
    /\ [][\A i \in 1..MaxFileChanges, env \in CanvasOutcomes :
            (convertToPngEnds(i, env)
                /\ (~conversions[i].file.decodes \/ ~env.ctx \/ ~env.blob))
               => FellBack(i)]_vars

(***************************************************************************)
(* A storeImage call in which one underlying write fails.                  *)
(***************************************************************************)
\* the writes of one storeImage call: the row (or the data field), and one
\* per metadata entry
WritesOf(md) == {"data"} \cup DOMAIN md

\* sqlite.server: the writes made inside the transaction before the write
\* `failed` throws (a failing metadata insert is taken to be the last one),
\* then the catch block: ROLLBACK and rethrow
sqlite_storeImage_partial(db, imageId, imageStr, md, failed) ==
    LET row == IF failed = "data" THEN db.images[imageId]
               ELSE sqlite_storeImage_row(db, imageId, imageStr, md)
    IN  [images |-> [db.images EXCEPT ![imageId] = row],
         metadata |-> [db.metadata EXCEPT ![imageId] =
                         [k \in DOMAIN md \ (DirectFields \cup {failed}) |->
                             JSONstringify(md[k])]]]

\* BEGIN TRANSACTION, the writes up to the failing one, ROLLBACK, throw
sqlite_storeImage_failing(db, imageId, imageStr, md, failed) ==
    LET begin == db
        uncommitted == sqlite_storeImage_partial(begin, imageId, imageStr, md, failed)
        ROLLBACK == IF uncommitted = begin THEN uncommitted ELSE begin
    IN  [db |-> ROLLBACK, threw |-> TRUE]

\* redis.server: the queued commands are executed by EXEC one after the
\* other; the one for `failed` fails, the others stay executed (a Redis
\* transaction is not rolled back), and exec() rejects
redis_storeImage_failing(r, imageId, imageStr, md, failed) ==
    [r |-> redis_storeImage(r, imageId, IF failed = "data" THEN Null ELSE imageStr,
                            [k \in DOMAIN md \ {failed} |-> md[k]]),
     threw |-> TRUE]

\* await storeImage(imageId, imageData, md) on each adapter, the write
\* `failed` of the call failing
AdapterStoreImageFails(imageId, imageData, md, failed) ==
    LET s == sqlite_storeImage_failing(DB, imageId, imageData, md, failed)
        d == redis_storeImage_failing(redis, imageId, imageData, md, failed)
    IN  /\ images' = s.db.images
        /\ metadata' = s.db.metadata
        /\ redis' = d.r
        /\ lastCall' = [op |-> "storeImage", imageId |-> imageId,
                        threw |-> [sqlite |-> s.threw, redis |-> d.threw]]
        /\ UNCHANGED <<apiKey, cont, giftBasket, actionResp, statusResp, imageResp, clientVars>>

NextAtomic ==
    \/ NextAdapters
    \/ \E imageId \in AdapterIds, imageData \in AdapterData, md \in AdapterMetadata :
          \E failed \in WritesOf(md) :
             AdapterStoreImageFails(imageId, imageData, md, failed)

SpecAtomic == InitAdapters /\ [][NextAtomic]_vars

\* the step is a storeImage call with a failing write
StoreFails == "threw" \in DOMAIN lastCall'

\* on SQLite the failing call raises and leaves rows and metadata as they were
SqliteAllOrNothing ==
    [][StoreFails => /\ lastCall'.threw.sqlite
                     /\ images' = images /\ metadata' = metadata]_vars

\* C25: when a write of a storeImage call fails, the call raises the
\* failure and the record and its metadata are exactly as before the call,
\* on either adapter.
C25_StoreAllOrNothing ==
    [][StoreFails => /\ lastCall'.threw.sqlite /\ lastCall'.threw.redis
                     /\ images' = images /\ metadata' = metadata
                     /\ redis' = redis]_vars

(***************************************************************************)
(* The store connections: getDatabase of sqlite.server, getRedisClient of  *)
(* redis.server.  Every exported operation starts with one of them.  A     *)
(* call runs up to its first await in one step and resumes in a later one. *)
(***************************************************************************)
ConnectionFrame ==
    UNCHANGED <<images, metadata, redis, apiKey, cont, giftBasket, actionResp, statusResp,
                imageResp, lastCall, browserVars, flipperVars, normalizerVars>>

\* the object a caller creates: `new sqlite3(DB_PATH)`, `createClient(...)`
Handle(store, c) == [store |-> store, by |-> c]

\* the call's promise resolves with `handle`; `isOpen`: the state of the
\* handle at that moment (schema created / connected)
Returned(handle, isOpen) == [pc |-> "returned", handle |-> handle, isOpen |-> isOpen]

IsOpen(handle) == \E x \in connections : x.handle = handle /\ x.isOpen

\* the module's initialisation call is made while the module is evaluated,
\* before a request can call one of its exports
ModuleLoaded == callers["init"].pc # "idle"

\* getDatabase() up to `await import("better-sqlite3")`, or to `return db`
getDatabase(c) ==
    /\ callers[c].pc = "idle"
    /\ c # "init" => ModuleLoaded
    /\ IF sqliteDb = None
       THEN callers' = [callers EXCEPT ![c] = [pc |-> "await import"]]
       ELSE callers' = [callers EXCEPT ![c] = Returned(sqliteDb, IsOpen(sqliteDb))]
    /\ UNCHANGED <<sqliteDb, redisClient, connections>>
    /\ ConnectionFrame

\* the import resolves: db = new sqlite3(DB_PATH); db.exec(schema); return db
importResolves(c) ==
    /\ callers[c].pc = "await import"
    /\ sqliteDb' = Handle("sqlite", c)
    /\ connections' = connections \cup {[handle |-> sqliteDb', isOpen |-> TRUE]}
    /\ callers' = [callers EXCEPT ![c] = Returned(sqliteDb', TRUE)]
    /\ UNCHANGED redisClient
    /\ ConnectionFrame

\* getRedisClient() up to `await redisClient.connect()`, or to
\* `return redisClient`
getRedisClient(c) ==
    /\ callers[c].pc = "idle"
    /\ c # "init"
    /\ IF redisClient = None
       THEN /\ redisClient' = Handle("redis", c)
            /\ connections' = connections \cup {[handle |-> redisClient', isOpen |-> FALSE]}
            /\ callers' = [callers EXCEPT ![c] = [pc |-> "await connect"]]
       ELSE /\ callers' = [callers EXCEPT ![c] = Returned(redisClient, IsOpen(redisClient))]
            /\ UNCHANGED <<redisClient, connections>>
    /\ UNCHANGED sqliteDb
    /\ ConnectionFrame

\* the connection is established: return redisClient
connectResolves(c) ==
    /\ callers[c].pc = "await connect"
    /\ connections' = (connections \ {[handle |-> redisClient, isOpen |-> FALSE]})
                          \cup {[handle |-> redisClient, isOpen |-> TRUE]}
    /\ callers' = [callers EXCEPT ![c] = Returned(redisClient, TRUE)]
    /\ UNCHANGED <<sqliteDb, redisClient>>
    /\ ConnectionFrame

\* the operation that asked for the connection ends; the request's next
\* operation asks again
OperationEnds(c) ==
    /\ callers[c].pc = "returned"
    /\ c # "init"
    /\ callers' = [callers EXCEPT ![c] = Idle]
    /\ UNCHANGED <<sqliteDb, redisClient, connections>>
    /\ ConnectionFrame

NextConnection ==
    \E c \in Callers :
        \/ getDatabase(c)
        \/ importResolves(c)
        \/ getRedisClient(c)
        \/ connectResolves(c)
        \/ OperationEnds(c)

SpecConnection == InitClient /\ [][NextConnection]_vars

Created(store) == {x \in connections : x.handle.store = store}

\* a store's connection is created at most once
CreatedOnce(store) == Cardinality(Created(store)) <= 1

\* what a call returns is the store's one connection, initialised
ReceivesTheSingleton ==
    \A c \in Callers :
        callers[c].pc = "returned" =>
            /\ callers[c].isOpen
            /\ Created(callers[c].handle.store) = {[handle |-> callers[c].handle, isOpen |-> TRUE]}

\* the Redis client is created once, whatever the interleaving
RedisCreatedOnce == CreatedOnce("redis")

\* a SQLite connection is handed out with its schema created
SqliteReturnedInitialised ==
    \A c \in Callers :
        (callers[c].pc = "returned" /\ callers[c].handle.store = "sqlite") => callers[c].isOpen

\* C26: under every interleaving of the callers (the module's
\* initialisation call included) each store's connection is created at
\* most once, and every call returns that one connection, with its schema
\* created / connected.
C26_ConnectionSingleton ==
    /\ CreatedOnce("sqlite") /\ CreatedOnce("redis")
    /\ ReceivesTheSingleton

====
